---- MODULE Spec2Model ----
(***************************************************************************)
(* State-machine model of the MCPStudio front end (ai-server-forge):       *)
(* the module-level sample data of types/mcp.ts, the pages Index,          *)
(* NewServer and ServerDetail, and the ToolEditor and ServerConfigEditor   *)
(* components.  React state is modelled as variables, every setTimeout     *)
(* callback as a pending timer, and the arrays that the code shares        *)
(* between objects by reference (the tools arrays) live in a heap.         *)
(***************************************************************************)
EXTENDS Integers, Sequences, FiniteSets, TLC

VARIABLES
    route,        \* which <Route> is rendered: "index", "new" or "detail"
    id,           \* useParams().id of /server/:id
    server,       \* ServerDetail: useState<MCPServer | null>
    isLoading,    \* ServerDetail: useState(true)
    activeTab,    \* ServerDetail: useState('overview')
    editingTool,  \* ServerDetail: useState<Tool | null>
    toolEditor,   \* state of the mounted ToolEditor, or NULL
    configEditor, \* state of the mounted ServerConfigEditor, or NULL
    newServer,    \* state of the NewServer page
    created,      \* the MCPServer object made by the handleCreate callback that has just run, or NULL
    heap,         \* the tools arrays, by reference
    timers,       \* pending setTimeout callbacks, in the order they were set
    now,          \* Date.now()
    edits,        \* number of changes made in the editors since the page was loaded
    interrupted,  \* <<id>> of the server that was DEPLOYING when the page was reloaded, or NULL
    credentials,  \* OAuth Lifecycle Manager: the Credential stored under each (integration, account)
    refreshing,   \* OAuth Lifecycle Manager: the refresh in flight for each (integration, account), or NULL
    refreshCalls, \* the refresh calls made to the OAuth provider, with their outcomes
    callers,      \* the callers of getValidCredential
    subscribers,  \* Event Bus: the subscriber registry
    published,    \* the events published, in publish order
    calls,        \* Tool Execution Engine: the execute calls
    records,      \* the ExecutionRecords persisted, append-only
    invocations,  \* the calls of ProtocolClient.invoke
    sockets,      \* Protocol Client: the sockets opened, in the order opened
    connecting,   \* the connect attempt in flight of each server
    handles,      \* the ConnectionHandle of each server
    connectors,   \* the callers of connect
    code          \* ToolEditor with its implementation: name, parameter names
                  \* and implementation

\* The state of the front end
frontend == <<route, id, server, isLoading, activeTab, editingTool, toolEditor,
              configEditor, newServer, created, heap, timers, now, edits, interrupted>>

\* The state of the OAuth Lifecycle Manager
oauth == <<credentials, refreshing, refreshCalls, callers>>

\* The state of the Event Bus
bus == <<subscribers, published>>

\* The state of the Tool Execution Engine
engine == <<calls, records, invocations>>

\* The state of the Protocol Client
client == <<sockets, connecting, handles, connectors>>

\* The state that the handlers of the pages do not reach
core == <<oauth, bus, engine, client, code>>

\* What the steps of one component leave alone
besideOAuth == <<frontend, bus, engine, client, code>>
besideBus == <<frontend, oauth, engine, client, code>>
besideEngine == <<frontend, oauth, bus, client, code>>
besideClient == <<frontend, oauth, bus, engine, code>>
besideCode == <<frontend, oauth, bus, engine, client>>

vars == <<frontend, core>>

----------------------------------------------------------------------------
(* Bounds of the model *)

MaxTimers == 2   \* pending setTimeout callbacks
MaxHeap == 3     \* tools arrays allocated
MaxParams == 2   \* parameters of a tool in the ToolEditor
MaxNow == 4      \* last value of the clock
MaxEdits == 1    \* changes made in the tool and configuration editors per page load
MaxCallers == 2  \* callers of getValidCredential
MaxSubscribers == 2  \* subscribers of the Event Bus
MaxEvents == 3   \* events published
MaxQueue == 1    \* events that wait for a subscriber before it counts as slow
MaxCalls == 2    \* execute calls
MaxConnectors == 2  \* callers of connect
MaxSockets == 3  \* sockets opened
MaxCodeParams == 1  \* parameters of the tool whose implementation is edited
MaxImplementation == 40  \* characters of the implementation

----------------------------------------------------------------------------
(* Values *)

\* A value that may be null or undefined is a sequence of length at most one:
\* NULL when it is null or undefined, <<v>> when it is the value v.
NULL == <<>>

----------------------------------------------------------------------------
(* Strings whose characters the code inspects are sequences of characters *)

UpperCase == <<"A", "B", "C", "D", "E", "F", "G", "H", "I", "J", "K", "L", "M",
               "N", "O", "P", "Q", "R", "S", "T", "U", "V", "W", "X", "Y", "Z">>
LowerCase == <<"a", "b", "c", "d", "e", "f", "g", "h", "i", "j", "k", "l", "m",
               "n", "o", "p", "q", "r", "s", "t", "u", "v", "w", "x", "y", "z">>
Digits == {"0", "1", "2", "3", "4", "5", "6", "7", "8", "9"}

\* String.prototype.toLowerCase, one character
ToLowerChar(c) ==
    IF \E i \in 1..Len(UpperCase) : UpperCase[i] = c
    THEN LowerCase[CHOOSE i \in 1..Len(UpperCase) : UpperCase[i] = c]
    ELSE c

\* .replace(/[^a-z0-9]/g, '-'), one character
ReplaceNonAlnumChar(c) ==
    IF (\E i \in 1..Len(LowerCase) : LowerCase[i] = c) \/ c \in Digits
    THEN c ELSE "-"

\* `https://${server.name.toLowerCase().replace(/[^a-z0-9]/g, '-')}.example.mcp`
DeploymentUrlOf(name) ==
    <<"https://">> \o [i \in 1..Len(name) |-> ReplaceNonAlnumChar(ToLowerChar(name[i]))]
                   \o <<".example.mcp">>

----------------------------------------------------------------------------
(* types/mcp.ts: sample data *)

DeploymentState == {"NOT_DEPLOYED", "DEPLOYING", "DEPLOYED", "FAILED"}

\* Fields of Tool and Parameter that no handler of the model reads or writes
\* (description, returnType, schema) are left out of the records.
sampleTools == <<
    [id |-> <<"tool", 1>>, name |-> "searchDocuments",
     parameters |-> <<[name |-> "query", type |-> "string", required |-> TRUE],
                      [name |-> "limit", type |-> "number", required |-> FALSE]>>],
    [id |-> <<"tool", 2>>, name |-> "getWeather",
     parameters |-> <<[name |-> "location", type |-> "string", required |-> TRUE]>>] >>

sampleResources == <<"resource-1", "resource-2">>

samplePrompts == <<"prompt-1">>

\* The tools arrays of the two sample servers, sampleTools.slice(0, 1) and
\* sampleTools.slice(1, 2), are the arrays at references 1 and 2 of the heap.
sampleHeap == << SubSeq(sampleTools, 1, 1), SubSeq(sampleTools, 2, 2) >>

sampleServers == <<
    [id |-> <<"server", 1>>,
     name |-> <<"D", "o", "c", "u", "m", "e", "n", "t", " ", "S", "e", "a", "r", "c", "h", " ", "E", "n", "g", "i", "n", "e">>,
     description |-> <<"MCP server for intelligent document search and retrieval">>,
     tools |-> 1,
     resources |-> SubSeq(sampleResources, 1, 1),
     prompts |-> samplePrompts,
     config |-> [transport |-> "http",
                 authentication |-> [type |-> "apiKey", config |-> "header"],
                 cors |-> [enabled |-> TRUE, origins |-> <<"*">>]],
     deploymentState |-> "DEPLOYED",
     deploymentUrl |-> << <<"https://document-search.example.mcp">> >>,
     createdAt |-> 0,
     updatedAt |-> 2],
    [id |-> <<"server", 2>>,
     name |-> <<"W", "e", "a", "t", "h", "e", "r", " ", "I", "n", "f", "o", "r", "m", "a", "t", "i", "o", "n", " ", "S", "e", "r", "v", "i", "c", "e">>,
     description |-> <<"MCP server providing accurate weather data for AI agents">>,
     tools |-> 2,
     resources |-> SubSeq(sampleResources, 2, 2),
     prompts |-> <<>>,
     config |-> [transport |-> "http",
                 authentication |-> [type |-> "none", config |-> "empty"],
                 cors |-> [enabled |-> TRUE, origins |-> <<"*">>]],
     deploymentState |-> "NOT_DEPLOYED",
     deploymentUrl |-> NULL,
     createdAt |-> 1,
     updatedAt |-> 1] >>

\* createNewServer making a server that counts as deployed
createNewServerDeployed(t, ref) ==
    [object |->
        [id |-> <<"server", t>>,
         name |-> <<"N", "e", "w", " ", "M", "C", "P", " ", "S", "e", "r", "v", "e", "r">>,
         description |-> <<"A new MCP server for AI agent integration">>,
         tools |-> ref,
         resources |-> <<>>,
         prompts |-> <<>>,
         config |-> [transport |-> "http",
                     authentication |-> [type |-> "none", config |-> "empty"],
                     cors |-> [enabled |-> TRUE, origins |-> <<"*">>]],
         deploymentState |-> "DEPLOYED",
         deploymentUrl |-> NULL,
         createdAt |-> t,
         updatedAt |-> t],
     toolsArray |-> <<>>]

\* createNewServer(), with Date.now() = t: the new object, whose tools field is
\* the fresh reference ref, and the contents of the array at that reference
createNewServer(t, ref) ==
    [object |->
        [id |-> <<"server", t>>,
         name |-> <<"N", "e", "w", " ", "M", "C", "P", " ", "S", "e", "r", "v", "e", "r">>,
         description |-> <<"A new MCP server for AI agent integration">>,
         tools |-> ref,
         resources |-> <<>>,
         prompts |-> <<>>,
         config |-> [transport |-> "http",
                     authentication |-> [type |-> "none", config |-> "empty"],
                     cors |-> [enabled |-> TRUE, origins |-> <<"*">>]],
         deploymentState |-> "NOT_DEPLOYED",
         deploymentUrl |-> NULL,
         createdAt |-> t,
         updatedAt |-> t],
     toolsArray |-> <<>>]

\* sampleServers.find(s => s.id === i)
FindServer(i) ==
    IF \E k \in 1..Len(sampleServers) : sampleServers[k].id = i
    THEN << sampleServers[CHOOSE k \in 1..Len(sampleServers) :
                              sampleServers[k].id = i /\ \A j \in 1..(k-1) : sampleServers[j].id # i] >>
    ELSE NULL

----------------------------------------------------------------------------
(* setTimeout *)

\* A pending callback.  live is FALSE once the component that set it has been
\* unmounted: its state setters then do nothing.  id, server, name and
\* description are the values its closure captured.
Timer(kind, delay, i, srv, name, description) ==
    [kind |-> kind, delay |-> delay, live |-> TRUE, id |-> i, server |-> srv,
     name |-> name, description |-> description]

\* Timers that run in any order
CanFireAnyOrder(i) == i \in 1..Len(timers)

\* Timers run in the order of their timeouts; of two pending timers the one
\* set earlier with a delay no longer than the other's runs first.
CanFire(i) ==
    /\ i \in 1..Len(timers)
    /\ \A j \in 1..(i - 1) : timers[j].delay > timers[i].delay

RemoveAt(seq, i) == SubSeq(seq, 1, i - 1) \o SubSeq(seq, i + 1, Len(seq))

\* TRUE if the callback still does something once the component that set it
\* is unmounted: the callback of handleCreate navigates, and so does the load
\* callback of an id that sampleServers does not have.  The other callbacks
\* only call the setters of the unmounted component and toast.
ActsUnmounted(t) ==
    \/ t.kind = "create"
    \/ t.kind = "load" /\ FindServer(t.id) = NULL

\* The pending timers after every mounted component has been unmounted; the
\* callbacks that do nothing any more are left out.
Unmounted(ts) ==
    LET kept == SelectSeq(ts, ActsUnmounted)
    IN  [i \in 1..Len(kept) |-> [kept[i] EXCEPT !.live = (kept[i].kind = "create")]]

----------------------------------------------------------------------------
(* ServerDetail.tsx *)

Tabs == {"overview", "tools", "resources", "prompts", "config"}

\* {} as Tool
EmptyTool == [id |-> NULL, name |-> "", parameters |-> <<>>]

\* The page shows the server (neither "Loading server details..." nor
\* "Server not found")
Rendered == route = "detail" /\ ~isLoading /\ server # NULL

\* useState initial values of ToolEditor, given the editingTool of ServerDetail:
\* tool = editingTool.id ? editingTool : undefined
NewToolEditor(et) ==
    LET tool == IF et.id # NULL THEN <<et>> ELSE NULL
    IN  << [tool |-> tool,
            name |-> IF tool # NULL THEN tool[1].name ELSE "",
            parameters |-> IF tool # NULL THEN tool[1].parameters ELSE <<>>] >>

\* useState initial values of ServerConfigEditor
NewConfigEditor(config) ==
    << [transport |-> config.transport,
        authentication |-> config.authentication,
        cors |-> config.cors] >>

\* The tools arrays that are still reachable once no ServerDetail is mounted
\* and its callbacks are gone: those of sampleServers
Collected(h) == SubSeq(h, 1, Len(sampleHeap))

\* The initial state of a ServerDetail mounted for /server/<i>, with its load
\* effect run
MountServerDetail(i, ts) ==
    /\ route' = "detail"
    /\ id' = i
    /\ server' = NULL
    /\ isLoading' = TRUE
    /\ activeTab' = "overview"
    /\ editingTool' = NULL
    /\ toolEditor' = NULL
    /\ configEditor' = NULL
    /\ heap' = Collected(heap)
    /\ timers' = Append(Unmounted(ts), Timer("load", 500, i, NULL, <<>>, <<>>))

\* Leaving /server/:id for another route unmounts ServerDetail
UnmountServerDetail ==
    /\ heap' = Collected(heap)
    /\ server' = NULL
    /\ isLoading' = TRUE
    /\ activeTab' = "overview"
    /\ editingTool' = NULL
    /\ toolEditor' = NULL
    /\ configEditor' = NULL

\* navigate('/')
NavigateIndex ==
    /\ route' = "index"
    /\ id' = NULL
    /\ UnmountServerDetail
    /\ newServer' = [name |-> <<>>, description |-> <<>>, isSubmitting |-> FALSE]

\* The callback of the load effect
LoadTimer(i) ==
    /\ CanFire(i)
    /\ timers[i].kind = "load"
    /\ LET foundServer == FindServer(timers[i].id)
           rest == RemoveAt(timers, i)
       IN  IF foundServer # NULL
           THEN /\ server' = IF timers[i].live THEN foundServer ELSE server
                /\ isLoading' = IF timers[i].live THEN FALSE ELSE isLoading
                /\ timers' = rest
                /\ UNCHANGED <<route, id, activeTab, editingTool, toolEditor,
                               configEditor, newServer, heap>>
           ELSE /\ NavigateIndex
                /\ timers' = Unmounted(rest)
    /\ created' = NULL
    /\ UNCHANGED core
    /\ interrupted' = IF FindServer(timers[i].id) # NULL THEN interrupted ELSE NULL
    /\ UNCHANGED <<now, edits>>

handleBack ==
    /\ Rendered
    /\ NavigateIndex
    /\ timers' = Unmounted(timers)
    /\ created' = NULL
    /\ UNCHANGED core
    /\ interrupted' = NULL
    /\ UNCHANGED <<now, edits>>

\* handleTabChange without setEditingTool(null)
handleTabChangeKeeping(value) ==
    /\ Rendered
    /\ value \in Tabs \ {activeTab}
    /\ activeTab' = value
    /\ toolEditor' = NULL
    /\ configEditor' = IF value = "config" THEN NewConfigEditor(server[1].config) ELSE NULL
    /\ created' = NULL
    /\ UNCHANGED core
    /\ UNCHANGED interrupted
    /\ UNCHANGED <<route, id, server, isLoading, editingTool, newServer, heap, timers, now, edits>>

handleTabChange(value) ==
    /\ Rendered
    /\ value \in Tabs \ {activeTab}
    /\ activeTab' = value
    /\ editingTool' = NULL
    /\ toolEditor' = NULL
    /\ configEditor' = IF value = "config" THEN NewConfigEditor(server[1].config) ELSE NULL
    /\ created' = NULL
    /\ UNCHANGED core
    /\ UNCHANGED interrupted
    /\ UNCHANGED <<route, id, server, isLoading, newServer, heap, timers, now, edits>>

\* The tool lists are shown on the overview tab, and on the tools tab while no
\* tool is being edited
ToolListShown ==
    /\ Rendered
    /\ \/ activeTab = "overview"
       \/ activeTab = "tools" /\ editingTool = NULL

handleEditTool(tool) ==
    /\ ToolListShown
    /\ editingTool' = <<tool>>
    /\ activeTab' = "tools"
    /\ toolEditor' = NewToolEditor(tool)
    /\ configEditor' = NULL
    /\ created' = NULL
    /\ UNCHANGED core
    /\ UNCHANGED interrupted
    /\ UNCHANGED <<route, id, server, isLoading, newServer, heap, timers, now, edits>>

handleNewTool ==
    /\ ToolListShown
    /\ editingTool' = <<EmptyTool>>
    /\ activeTab' = "tools"
    /\ toolEditor' = NewToolEditor(EmptyTool)
    /\ configEditor' = NULL
    /\ created' = NULL
    /\ UNCHANGED core
    /\ UNCHANGED interrupted
    /\ UNCHANGED <<route, id, server, isLoading, newServer, heap, timers, now, edits>>

\* onClick={() => setActiveTab('config')} of the overview tab
EditConfiguration ==
    /\ Rendered
    /\ activeTab = "overview"
    /\ activeTab' = "config"
    /\ toolEditor' = NULL
    /\ configEditor' = NewConfigEditor(server[1].config)
    /\ created' = NULL
    /\ UNCHANGED core
    /\ UNCHANGED interrupted
    /\ UNCHANGED <<route, id, server, isLoading, editingTool, newServer, heap, timers, now, edits>>

\* tools.findIndex(t => t.id === tool.id), 0 for -1
FindIndex(tools, toolId) ==
    IF \E k \in 1..Len(tools) : tools[k].id = toolId
    THEN CHOOSE k \in 1..Len(tools) :
             tools[k].id = toolId /\ \A j \in 1..(k - 1) : tools[j].id # toolId
    ELSE 0

\* updatedServer = { ...server } shares the tools array of server: an existing
\* tool is replaced in that array, a new one goes into a new array.
\* handleSaveTool appending the tool whether or not its id is present
handleSaveToolAppending(tool) ==
    /\ server # NULL
    /\ heap' = Append(heap, Append(heap[server[1].tools], tool))
    /\ server' = <<[server[1] EXCEPT !.tools = Len(heap) + 1]>>
    /\ editingTool' = NULL
    /\ toolEditor' = NULL
    /\ created' = NULL
    /\ UNCHANGED core
    /\ UNCHANGED interrupted
    /\ UNCHANGED <<route, id, isLoading, activeTab, configEditor, newServer, timers, now, edits>>

handleSaveTool(tool) ==
    /\ server # NULL
    /\ LET ref == server[1].tools
           toolIndex == FindIndex(heap[ref], tool.id)
       IN  IF toolIndex >= 1
           THEN /\ heap' = [heap EXCEPT ![ref][toolIndex] = tool]
                /\ server' = server
           ELSE /\ heap' = Append(heap, Append(heap[ref], tool))
                /\ server' = <<[server[1] EXCEPT !.tools = Len(heap) + 1]>>
    /\ editingTool' = NULL
    /\ toolEditor' = NULL
    /\ created' = NULL
    /\ UNCHANGED core
    /\ UNCHANGED interrupted
    /\ UNCHANGED <<route, id, isLoading, activeTab, configEditor, newServer, timers, now, edits>>

\* handleSaveConfig taking the server out of deployment
handleSaveConfigUndeploys(config) ==
    /\ server # NULL
    /\ server' = <<[server[1] EXCEPT !.config = config, !.deploymentState = "NOT_DEPLOYED"]>>
    /\ created' = NULL
    /\ UNCHANGED core
    /\ UNCHANGED interrupted
    /\ UNCHANGED <<route, id, isLoading, activeTab, editingTool, toolEditor,
                   configEditor, newServer, heap, timers, now, edits>>

handleSaveConfig(config) ==
    /\ server # NULL
    /\ server' = <<[server[1] EXCEPT !.config = config]>>
    /\ created' = NULL
    /\ UNCHANGED core
    /\ UNCHANGED interrupted
    /\ UNCHANGED <<route, id, isLoading, activeTab, editingTool, toolEditor,
                   configEditor, newServer, heap, timers, now, edits>>

\* getDeployButton with a "Redeploy" button for a DEPLOYED server
getDeployButtonRedeploy(deploymentState) ==
    CASE deploymentState = "DEPLOYING" -> "none"
      [] OTHER -> "handleDeploy"

\* getDeployButton with the DEPLOYING button left enabled
getDeployButtonEnabled(deploymentState) ==
    CASE deploymentState = "DEPLOYED" -> "none"
      [] OTHER -> "handleDeploy"

\* What the button of getDeployButton does when clicked: "handleDeploy", or
\* "none" for a disabled button and for a button without onClick
getDeployButton(deploymentState) ==
    CASE deploymentState = "DEPLOYED" -> "none"
      [] deploymentState = "DEPLOYING" -> "none"
      [] deploymentState = "FAILED" -> "handleDeploy"
      [] OTHER -> "handleDeploy"

\* handleDeploy up to its setTimeout; the closure captures server
handleDeploy ==
    /\ Rendered
    /\ getDeployButton(server[1].deploymentState) = "handleDeploy"
    /\ Len(timers) < MaxTimers
    /\ timers' = Append(timers, Timer("deploying", 1000, id, server, server[1].name, <<>>))
    /\ created' = NULL
    /\ UNCHANGED core
    /\ UNCHANGED interrupted
    /\ UNCHANGED <<route, id, server, isLoading, activeTab, editingTool, toolEditor,
                   configEditor, newServer, heap, now, edits>>

\* The first (1000 ms) callback of handleDeploy
DeployingTimer(i) ==
    /\ CanFire(i)
    /\ timers[i].kind = "deploying"
    /\ LET updatedServer == <<[timers[i].server[1] EXCEPT !.deploymentState = "DEPLOYING"]>>
       IN  /\ server' = IF timers[i].live THEN updatedServer ELSE server
           /\ timers' = Append(RemoveAt(timers, i),
                               [timers[i] EXCEPT !.kind = "deployed", !.delay = 3000,
                                                 !.server = updatedServer])
    /\ created' = NULL
    /\ UNCHANGED core
    /\ UNCHANGED interrupted
    /\ UNCHANGED <<route, id, isLoading, activeTab, editingTool, toolEditor,
                   configEditor, newServer, heap, now, edits>>

\* The second (3000 ms) callback of handleDeploy
DeployedTimer(i) ==
    /\ CanFire(i)
    /\ timers[i].kind = "deployed"
    /\ LET deployedServer ==
               <<[timers[i].server[1] EXCEPT
                     !.deploymentState = "DEPLOYED",
                     !.deploymentUrl = <<DeploymentUrlOf(timers[i].name)>>,
                     !.updatedAt = now]>>
       IN  server' = IF timers[i].live THEN deployedServer ELSE server
    /\ timers' = RemoveAt(timers, i)
    /\ created' = NULL
    /\ UNCHANGED core
    /\ UNCHANGED interrupted
    /\ UNCHANGED <<route, id, isLoading, activeTab, editingTool, toolEditor,
                   configEditor, newServer, heap, now, edits>>

----------------------------------------------------------------------------
(* ToolEditor.tsx and ParameterEditor.tsx *)

\* Values typed or chosen in the editors
ToolNameInputs == {"getWeather"}
ParameterInputs == {<<"name", "limit">>}

setName(value) ==
    /\ toolEditor # NULL
    /\ edits < MaxEdits
    /\ edits' = edits + 1
    /\ value # toolEditor[1].name
    /\ toolEditor' = <<[toolEditor[1] EXCEPT !.name = value]>>
    /\ created' = NULL
    /\ UNCHANGED core
    /\ UNCHANGED interrupted
    /\ UNCHANGED <<route, id, server, isLoading, activeTab, editingTool,
                   configEditor, newServer, heap, timers, now>>

handleAddParameter ==
    /\ toolEditor # NULL
    /\ edits < MaxEdits
    /\ edits' = edits + 1
    /\ Len(toolEditor[1].parameters) < MaxParams
    /\ toolEditor' = <<[toolEditor[1] EXCEPT !.parameters =
                           Append(@, [name |-> "", type |-> "string", required |-> FALSE])]>>
    /\ created' = NULL
    /\ UNCHANGED core
    /\ UNCHANGED interrupted
    /\ UNCHANGED <<route, id, server, isLoading, activeTab, editingTool,
                   configEditor, newServer, heap, timers, now>>

\* ParameterEditor.handleChange: { ...parameter, [field]: value }
handleChange(parameter, field, value) == [parameter EXCEPT ![field] = value]

handleUpdateParameter(index, updatedParam) ==
    /\ toolEditor # NULL
    /\ edits < MaxEdits
    /\ edits' = edits + 1
    /\ index \in 1..Len(toolEditor[1].parameters)
    /\ toolEditor' = <<[toolEditor[1] EXCEPT !.parameters[index] = updatedParam]>>
    /\ created' = NULL
    /\ UNCHANGED core
    /\ UNCHANGED interrupted
    /\ UNCHANGED <<route, id, server, isLoading, activeTab, editingTool,
                   configEditor, newServer, heap, timers, now>>

\* parameters.filter((_, i) => i !== index)
handleRemoveParameter(index) ==
    /\ toolEditor # NULL
    /\ edits < MaxEdits
    /\ edits' = edits + 1
    /\ index \in 1..Len(toolEditor[1].parameters)
    /\ toolEditor' = <<[toolEditor[1] EXCEPT !.parameters = RemoveAt(@, index)]>>
    /\ created' = NULL
    /\ UNCHANGED core
    /\ UNCHANGED interrupted
    /\ UNCHANGED <<route, id, server, isLoading, activeTab, editingTool,
                   configEditor, newServer, heap, timers, now>>

\* The Tool that ToolEditor.handleSave passes to onSave
updatedTool ==
    [id |-> IF toolEditor[1].tool # NULL /\ toolEditor[1].tool[1].id # NULL
            THEN toolEditor[1].tool[1].id
            ELSE <<"tool", now>>,
     name |-> toolEditor[1].name,
     parameters |-> toolEditor[1].parameters]

\* ToolEditor.handleSave, with onSave = handleSaveTool
handleSave ==
    /\ toolEditor # NULL
    /\ Len(heap) < MaxHeap \/ FindIndex(heap[server[1].tools], updatedTool.id) >= 1
    /\ handleSaveTool(updatedTool)

----------------------------------------------------------------------------
(* ServerConfigEditor.tsx, TransportConfig.tsx, AuthConfig.tsx, CorsConfig.tsx *)

TransportInputs == {"http", "websocket"}
AuthTypeInputs == {"none", "jwt"}

\* setTransport writing the transport into the server as it is chosen
setTransportCommitting(transport) ==
    /\ configEditor # NULL
    /\ edits < MaxEdits
    /\ edits' = edits + 1
    /\ transport # configEditor[1].transport
    /\ configEditor' = <<[configEditor[1] EXCEPT !.transport = transport]>>
    /\ server' = <<[server[1] EXCEPT !.config.transport = transport]>>
    /\ created' = NULL
    /\ UNCHANGED core
    /\ UNCHANGED interrupted
    /\ UNCHANGED <<route, id, isLoading, activeTab, editingTool,
                   toolEditor, newServer, heap, timers, now>>

setTransport(transport) ==
    /\ configEditor # NULL
    /\ edits < MaxEdits
    /\ edits' = edits + 1
    /\ transport # configEditor[1].transport
    /\ configEditor' = <<[configEditor[1] EXCEPT !.transport = transport]>>
    /\ created' = NULL
    /\ UNCHANGED core
    /\ UNCHANGED interrupted
    /\ UNCHANGED <<route, id, server, isLoading, activeTab, editingTool,
                   toolEditor, newServer, heap, timers, now>>

\* AuthConfig.handleTypeChange: the default config of the chosen type
handleTypeChange(type) ==
    /\ configEditor # NULL
    /\ edits < MaxEdits
    /\ edits' = edits + 1
    /\ type # configEditor[1].authentication.type
    /\ configEditor' = <<[configEditor[1] EXCEPT !.authentication =
                             [type |-> type,
                              config |-> CASE type = "apiKey" -> "header"
                                           [] type = "oauth" -> "provider"
                                           [] type = "jwt" -> "secret"
                                           [] OTHER -> "empty"]]>>
    /\ created' = NULL
    /\ UNCHANGED core
    /\ UNCHANGED interrupted
    /\ UNCHANGED <<route, id, server, isLoading, activeTab, editingTool,
                   toolEditor, newServer, heap, timers, now>>

\* CorsConfig.handleToggle
handleToggle(enabled) ==
    /\ configEditor # NULL
    /\ edits < MaxEdits
    /\ edits' = edits + 1
    /\ enabled # configEditor[1].cors.enabled
    /\ configEditor' = <<[configEditor[1] EXCEPT !.cors.enabled = enabled]>>
    /\ created' = NULL
    /\ UNCHANGED core
    /\ UNCHANGED interrupted
    /\ UNCHANGED <<route, id, server, isLoading, activeTab, editingTool,
                   toolEditor, newServer, heap, timers, now>>

\* ServerConfigEditor.handleSave, with onSave = handleSaveConfig
handleSaveConfigEditor ==
    /\ configEditor # NULL
    /\ handleSaveConfig([transport |-> configEditor[1].transport,
                         authentication |-> configEditor[1].authentication,
                         cors |-> configEditor[1].cors])

----------------------------------------------------------------------------
(* Index.tsx, ServerList.tsx, ServerCard.tsx, Sidebar.tsx, NewServer.tsx *)

ServerNameInputs == {<<>>, <<"S", "1">>}
DescriptionInputs == {<<>>, <<"d">>}

\* Index: const [servers, setServers] = useState(sampleServers); setServers
\* is never called
IndexServers == sampleServers

\* ServerCard.getStatusText
getStatusText(deploymentState) ==
    CASE deploymentState = "DEPLOYED" -> "Deployed"
      [] deploymentState = "DEPLOYING" -> "Deploying"
      [] deploymentState = "FAILED" -> "Failed"
      [] OTHER -> "Not Deployed"

\* The status text on the card of the server on the dashboard
StatusShown(serverId) ==
    getStatusText(IndexServers[CHOOSE k \in 1..Len(IndexServers) :
                                  IndexServers[k].id = serverId].deploymentState)

\* ServerCard.handleCardClick: navigate(`/server/${server.id}`)
handleCardClick(k) ==
    /\ route = "index"
    /\ k \in 1..Len(sampleServers)
    /\ Len(timers) < MaxTimers
    /\ MountServerDetail(sampleServers[k].id, timers)
    /\ created' = NULL
    /\ UNCHANGED core
    /\ interrupted' = NULL
    /\ UNCHANGED <<newServer, now, edits>>

\* navigate('/new-server') of ServerList.handleNewServer and of the sidebar
handleNewServer ==
    /\ route # "new"
    /\ route' = "new"
    /\ id' = NULL
    /\ UnmountServerDetail
    /\ newServer' = [name |-> <<>>, description |-> <<>>, isSubmitting |-> FALSE]
    /\ timers' = Unmounted(timers)
    /\ created' = NULL
    /\ UNCHANGED core
    /\ interrupted' = NULL
    /\ UNCHANGED <<now, edits>>

\* The "/" link of the sidebar
SidebarHome ==
    /\ route # "index"
    /\ NavigateIndex
    /\ timers' = Unmounted(timers)
    /\ created' = NULL
    /\ UNCHANGED core
    /\ interrupted' = NULL
    /\ UNCHANGED <<now, edits>>

setServerName(value) ==
    /\ route = "new"
    /\ value # newServer.name
    /\ newServer' = [newServer EXCEPT !.name = value]
    /\ created' = NULL
    /\ UNCHANGED core
    /\ UNCHANGED interrupted
    /\ UNCHANGED <<route, id, server, isLoading, activeTab, editingTool,
                   toolEditor, configEditor, heap, timers, now, edits>>

setDescription(value) ==
    /\ route = "new"
    /\ value # newServer.description
    /\ newServer' = [newServer EXCEPT !.description = value]
    /\ created' = NULL
    /\ UNCHANGED core
    /\ UNCHANGED interrupted
    /\ UNCHANGED <<route, id, server, isLoading, activeTab, editingTool,
                   toolEditor, configEditor, heap, timers, now, edits>>

\* NewServer.handleCreate up to its setTimeout
handleCreate ==
    /\ route = "new"
    /\ ~newServer.isSubmitting
    /\ newServer.name # <<>>
    /\ Len(timers) < MaxTimers
    /\ newServer' = [newServer EXCEPT !.isSubmitting = TRUE]
    /\ timers' = Append(timers, Timer("create", 1000, NULL, NULL,
                                      newServer.name, newServer.description))
    /\ created' = NULL
    /\ UNCHANGED core
    /\ UNCHANGED interrupted
    /\ UNCHANGED <<route, id, server, isLoading, activeTab, editingTool,
                   toolEditor, configEditor, heap, now, edits>>

\* The callback of handleCreate: the new server is named, then dropped;
\* only its id goes into the route.  The object and its tools array are
\* reachable from nowhere once the callback returns, so the array is kept
\* with the object in created and not in the heap.  A ServerDetail that is
\* already mounted stays mounted and runs its load effect for the new id.
CreateTimer(i) ==
    /\ CanFire(i)
    /\ timers[i].kind = "create"
    /\ LET made == [createNewServer(now, Len(heap) + 1) EXCEPT
                       !.object.name = timers[i].name,
                       !.object.description = timers[i].description]
           rest == RemoveAt(timers, i)
       IN  /\ created' = <<made>>
           /\ IF route = "detail"
              THEN /\ id' = made.object.id
                   /\ timers' = Append(rest, Timer("load", 500, made.object.id, NULL, <<>>, <<>>))
                   /\ UNCHANGED <<route, server, isLoading, activeTab, editingTool,
                                  toolEditor, configEditor, heap>>
              ELSE MountServerDetail(made.object.id, rest)
    /\ interrupted' = IF route = "detail" THEN interrupted ELSE NULL
    /\ newServer' = [name |-> <<>>, description |-> <<>>, isSubmitting |-> FALSE]
    /\ UNCHANGED <<now, edits>>
    /\ UNCHANGED core

----------------------------------------------------------------------------
(* The browser *)

\* Reloading the page restarts the application at the current route
Reload ==
    /\ edits' = 0
    /\ newServer' = [name |-> <<>>, description |-> <<>>, isSubmitting |-> FALSE]
    /\ route' = route
    /\ id' = id
    /\ server' = NULL
    /\ isLoading' = TRUE
    /\ activeTab' = "overview"
    /\ editingTool' = NULL
    /\ toolEditor' = NULL
    /\ configEditor' = NULL
    /\ heap' = sampleHeap
    /\ timers' = IF route = "detail"
                 THEN <<Timer("load", 500, id, NULL, <<>>, <<>>)>>
                 ELSE <<>>
    /\ created' = NULL
    /\ UNCHANGED core
    /\ interrupted' = IF route = "detail" /\ server # NULL /\ server[1].deploymentState = "DEPLOYING"
                      THEN <<server[1].id>> ELSE NULL
    /\ UNCHANGED now

\* Time passes
Tick ==
    /\ now < MaxNow
    /\ now' = now + 1
    /\ created' = NULL
    /\ UNCHANGED core
    /\ UNCHANGED interrupted
    /\ UNCHANGED <<route, id, server, isLoading, activeTab, editingTool, toolEditor,
                   configEditor, newServer, heap, timers, edits>>

----------------------------------------------------------------------------
(* OAuth Lifecycle Manager (spec.md 4.5): getValidCredential with the        *)
(* single-flight refresh per (integration, account) key.  The registry of    *)
(* the refreshes in flight is the "future/promise keyed registry" of the     *)
(* design notes.                                                             *)

\* The (integration, account) keys of the stored credentials
CredentialKeys == {<<"drive", "alice">>, <<"drive", "bob">>}

\* AuthError.ReauthorizationRequired
ReauthorizationRequired == <<"AuthError", "ReauthorizationRequired">>

\* What getValidCredential returns for a stored Credential: the access token
\* (and its expiry), never the refresh token
Returned(credential) == <<"Credential", credential.accessToken>>

IdleCaller == [pc |-> "idle", key |-> NULL, refresh |-> 0, result |-> NULL]

\* getValidCredential that starts a refresh of its own whenever the stored
\* token is expired
getValidCredentialUnshared(c, key) ==
    /\ callers[c].pc = "idle"
    /\ IF ~credentials[key].expired
       THEN /\ callers' = [callers EXCEPT ![c] =
                   [pc |-> "done", key |-> <<key>>, refresh |-> 0,
                    result |-> <<Returned(credentials[key])>>]]
            /\ UNCHANGED <<refreshing, refreshCalls>>
       ELSE /\ refreshCalls' = Append(refreshCalls, [key |-> key, outcome |-> NULL])
            /\ refreshing' = [refreshing EXCEPT ![key] = <<Len(refreshCalls) + 1>>]
            /\ callers' = [callers EXCEPT ![c] =
                   [pc |-> "waiting", key |-> <<key>>,
                    refresh |-> Len(refreshCalls) + 1, result |-> NULL]]
    /\ UNCHANGED credentials
    /\ UNCHANGED besideOAuth

\* getValidCredential(integration, account) up to its suspension point: a
\* token that is not expired is returned; otherwise the caller waits on the
\* refresh in flight for the key, and starts one if there is none.
getValidCredential(c, key) ==
    /\ callers[c].pc = "idle"
    /\ IF ~credentials[key].expired
       THEN /\ callers' = [callers EXCEPT ![c] =
                   [pc |-> "done", key |-> <<key>>, refresh |-> 0,
                    result |-> <<Returned(credentials[key])>>]]
            /\ UNCHANGED <<refreshing, refreshCalls>>
       ELSE IF refreshing[key] # NULL
       THEN /\ callers' = [callers EXCEPT ![c] =
                   [pc |-> "waiting", key |-> <<key>>,
                    refresh |-> refreshing[key][1], result |-> NULL]]
            /\ UNCHANGED <<refreshing, refreshCalls>>
       ELSE /\ refreshCalls' = Append(refreshCalls, [key |-> key, outcome |-> NULL])
            /\ refreshing' = [refreshing EXCEPT ![key] = <<Len(refreshCalls) + 1>>]
            /\ callers' = [callers EXCEPT ![c] =
                   [pc |-> "waiting", key |-> <<key>>,
                    refresh |-> Len(refreshCalls) + 1, result |-> NULL]]
    /\ UNCHANGED credentials
    /\ UNCHANGED besideOAuth

\* The refresh in flight for key ends with outcome: every caller waiting on
\* it observes that outcome.
RefreshEnds(key, outcome) ==
    LET r == refreshing[key][1]
    IN  /\ refreshCalls' = [refreshCalls EXCEPT ![r].outcome = <<outcome>>]
        /\ refreshing' = [refreshing EXCEPT ![key] = NULL]
        /\ callers' = [c \in DOMAIN callers |->
               IF callers[c].pc = "waiting" /\ callers[c].refresh = r
               THEN [callers[c] EXCEPT !.pc = "done", !.result = <<outcome>>]
               ELSE callers[c]]

\* The provider's refresh-token exchange succeeds: the new Credential is
\* stored and returned.
RefreshSucceeds(key) ==
    /\ refreshing[key] # NULL
    /\ LET refreshed == [accessToken |-> credentials[key].accessToken + 1, expired |-> FALSE]
       IN  /\ credentials' = [credentials EXCEPT ![key] = refreshed]
           /\ RefreshEnds(key, Returned(refreshed))
    /\ UNCHANGED besideOAuth

\* The provider's refresh-token exchange fails (expired or revoked refresh
\* token): AuthError.ReauthorizationRequired, and no stale token is returned.
RefreshFails(key) ==
    /\ refreshing[key] # NULL
    /\ RefreshEnds(key, ReauthorizationRequired)
    /\ UNCHANGED credentials
    /\ UNCHANGED besideOAuth

\* The expiry timestamp of the stored access token (less the safety margin)
\* passes
TokenExpires(key) ==
    /\ ~credentials[key].expired
    /\ credentials' = [credentials EXCEPT ![key].expired = TRUE]
    /\ UNCHANGED <<refreshing, refreshCalls, callers>>
    /\ UNCHANGED besideOAuth

----------------------------------------------------------------------------
(* Event Bus (spec.md 4.4): publish, and subscribe returning a cancellable,   *)
(* per-subscriber ordered stream; a slow subscriber is dropped.               *)

Topics == {"server", "execution"}

\* A subscriber that has not subscribed yet.  queue holds the events
\* published to it and not yet delivered, received the events delivered;
\* since is the number of events that had been published when it subscribed.
NoSubscriber ==
    [status |-> "none", topic |-> NULL, since |-> 0, queue |-> <<>>,
     received |-> <<>>, notification |-> NULL]

\* subscribe replaying the events published before
subscribeReplaying(sub, topicPattern) ==
    /\ subscribers[sub].status = "none"
    /\ subscribers' = [subscribers EXCEPT ![sub] =
           [status |-> "connected", topic |-> <<topicPattern>>, since |-> Len(published),
            queue |-> SelectSeq(published, LAMBDA e : e.topic = topicPattern),
            received |-> <<>>, notification |-> NULL]]
    /\ UNCHANGED published
    /\ UNCHANGED besideBus

\* subscribe(topicPattern): a new stream, without the events published before
subscribe(sub, topicPattern) ==
    /\ subscribers[sub].status = "none"
    /\ subscribers' = [subscribers EXCEPT ![sub] =
           [status |-> "connected", topic |-> <<topicPattern>>, since |-> Len(published),
            queue |-> <<>>, received |-> <<>>, notification |-> NULL]]
    /\ UNCHANGED published
    /\ UNCHANGED besideBus

\* The subscriber after event is published to its topic: the event joins its
\* queue, and a subscriber whose queue is full is dropped with a
\* SubscriberOverflow notification.
Offered(subscriber, event) ==
    IF subscriber.status # "connected" \/ subscriber.topic # <<event.topic>>
    THEN subscriber
    ELSE IF Len(subscriber.queue) >= MaxQueue
    THEN [subscriber EXCEPT !.status = "dropped", !.queue = <<>>,
                            !.notification = <<"SubscriberOverflow">>]
    ELSE [subscriber EXCEPT !.queue = Append(@, event)]

\* publish waiting until every subscriber of the topic has room
publishBlocking(topic) ==
    /\ Len(published) < MaxEvents
    /\ \A sub \in DOMAIN subscribers :
          (subscribers[sub].status = "connected" /\ subscribers[sub].topic = <<topic>>)
             => Len(subscribers[sub].queue) < MaxQueue
    /\ LET event == [topic |-> topic, no |-> Len(published) + 1]
       IN  /\ published' = Append(published, event)
           /\ subscribers' = [sub \in DOMAIN subscribers |-> Offered(subscribers[sub], event)]
    /\ UNCHANGED besideBus

\* publish(topic, event): fire-and-forget, it does not wait for a subscriber
publish(topic) ==
    /\ Len(published) < MaxEvents
    /\ LET event == [topic |-> topic, no |-> Len(published) + 1]
       IN  /\ published' = Append(published, event)
           /\ subscribers' = [sub \in DOMAIN subscribers |-> Offered(subscribers[sub], event)]
    /\ UNCHANGED besideBus

\* The stream of the subscriber yields its next event
deliver(sub) ==
    /\ subscribers[sub].status = "connected"
    /\ subscribers[sub].queue # <<>>
    /\ subscribers' = [subscribers EXCEPT
           ![sub].received = Append(@, Head(subscribers[sub].queue)),
           ![sub].queue = Tail(@)]
    /\ UNCHANGED published
    /\ UNCHANGED besideBus

\* The subscriber cancels its stream, or its session disconnects
cancel(sub) ==
    /\ subscribers[sub].status = "connected"
    /\ subscribers' = [subscribers EXCEPT ![sub].status = "cancelled", ![sub].queue = <<>>]
    /\ UNCHANGED published
    /\ UNCHANGED besideBus

----------------------------------------------------------------------------
(* Tool Execution Engine (spec.md 4.3): execute looks the tool up, validates  *)
(* the parameters, asks for a credential, calls ProtocolClient.invoke and     *)
(* persists one ExecutionRecord.                                              *)

\* The tool executed: a required string and an optional number
ExecutedTool ==
    [id |-> "tool-1", name |-> "getWeather",
     parameters |-> << [name |-> "city", type |-> "string", required |-> TRUE],
                       [name |-> "days", type |-> "number", required |-> FALSE] >>]

\* JSON values: their JSON type and their text
ParamValues ==
    { [json |-> "string", text |-> "Paris"],
      [json |-> "string", text |-> "3"],
      [json |-> "number", text |-> "3"] }

\* The parameter maps a caller supplies, NULL for a name it leaves out
ParamMaps == [{"city", "days"} -> ParamValues \cup {NULL}]

\* The text reads as a number
IsNumeric(text) == text = "3"

\* Validation that reads a numeric string as a number
validateCoercing(tool, params) ==
    LET missing == {k \in 1..Len(tool.parameters) :
                      tool.parameters[k].required /\ params[tool.parameters[k].name] = NULL}
        mismatch == {k \in 1..Len(tool.parameters) :
                      /\ params[tool.parameters[k].name] # NULL
                      /\ params[tool.parameters[k].name].json # tool.parameters[k].type
                      /\ ~ (tool.parameters[k].type = "number"
                              /\ IsNumeric(params[tool.parameters[k].name].text))}
    IN  IF missing # {} \/ mismatch # {} THEN <<"ValidationError">> ELSE NULL

\* The error of params against the Parameter list of the tool, NULL for none:
\* every required parameter is supplied and every supplied value has the
\* declared type, a numeric string not being a number
validate(tool, params) ==
    LET missing == {k \in 1..Len(tool.parameters) :
                      tool.parameters[k].required /\ params[tool.parameters[k].name] = NULL}
        mismatch == {k \in 1..Len(tool.parameters) :
                      /\ params[tool.parameters[k].name] # NULL
                      /\ params[tool.parameters[k].name].json # tool.parameters[k].type}
    IN  IF missing # {} \/ mismatch # {} THEN <<"ValidationError">> ELSE NULL

IdleCall == [pc |-> "idle", params |-> NULL]

\* The ExecutionRecord of a call: a result payload or an error descriptor
ExecutionRecord(call, result, error) ==
    [call |-> call, toolId |-> ExecutedTool.id, params |-> calls[call].params[1],
     result |-> result, error |-> error]

\* execute(serverId, toolId, params, callerContext) is called
execute(call, params) ==
    /\ calls[call].pc = "idle"
    /\ calls' = [calls EXCEPT ![call] = [pc |-> "validate", params |-> <<params>>]]
    /\ UNCHANGED <<records, invocations>>
    /\ UNCHANGED besideEngine

\* The parameters are validated against the Parameter schema of the tool;
\* a failure is persisted and ends the call
validated(call) ==
    /\ calls[call].pc = "validate"
    /\ LET error == validate(ExecutedTool, calls[call].params[1])
       IN  IF error # NULL
           THEN /\ records' = Append(records, ExecutionRecord(call, NULL, error))
                /\ calls' = [calls EXCEPT ![call].pc = "done"]
           ELSE /\ calls' = [calls EXCEPT ![call].pc = "credential"]
                /\ UNCHANGED records
    /\ UNCHANGED invocations
    /\ UNCHANGED besideEngine

\* The OAuth Lifecycle Manager hands a valid credential and the engine calls
\* ProtocolClient.invoke, or it fails and the failure is persisted
credentialed(call, ok) ==
    /\ calls[call].pc = "credential"
    /\ IF ok
       THEN /\ invocations' = Append(invocations, [call |-> call, params |-> calls[call].params[1]])
            /\ calls' = [calls EXCEPT ![call].pc = "invoke"]
            /\ UNCHANGED records
       ELSE /\ records' = Append(records, ExecutionRecord(call, NULL, ReauthorizationRequired))
            /\ calls' = [calls EXCEPT ![call].pc = "done"]
            /\ UNCHANGED invocations
    /\ UNCHANGED besideEngine

InvokeOutcomes == {"ToolResult", "TimeoutError", "InvocationError"}

\* invoke calling the server again after a failure
invokeReturnsRetrying(call, outcome) ==
    /\ calls[call].pc = "invoke"
    /\ IF outcome = "ToolResult"
       THEN /\ records' = Append(records, ExecutionRecord(call, <<outcome>>, NULL))
            /\ calls' = [calls EXCEPT ![call].pc = "done"]
            /\ UNCHANGED invocations
       ELSE /\ Len(invocations) < 2 * MaxCalls
            /\ invocations' = Append(invocations, [call |-> call, params |-> calls[call].params[1]])
            /\ UNCHANGED <<calls, records>>
    /\ UNCHANGED besideEngine

\* ProtocolClient.invoke returns: the result or the failure is persisted in
\* one ExecutionRecord and returned; the engine does not retry
invokeReturns(call, outcome) ==
    /\ calls[call].pc = "invoke"
    /\ records' = Append(records,
          IF outcome = "ToolResult"
          THEN ExecutionRecord(call, <<outcome>>, NULL)
          ELSE ExecutionRecord(call, NULL, <<outcome>>))
    /\ calls' = [calls EXCEPT ![call].pc = "done"]
    /\ UNCHANGED invocations
    /\ UNCHANGED besideEngine

----------------------------------------------------------------------------
(* Protocol Client (spec.md 4.1): connect, idempotent per server id, and      *)
(* close.  One logical connection is owned per registered Server.             *)

ConnectedServers == {"server-1", "server-2"}

ConnectError == <<"ConnectError">>

ConnectionHandle(socket) == <<"ConnectionHandle", socket>>

IdleConnector == [pc |-> "idle", server |-> NULL, attempt |-> 0, result |-> NULL]

\* connect opening a socket of its own unless the server is connected
connectDuplicating(c, serverId) ==
    /\ connectors[c].pc = "idle"
    /\ IF handles[serverId] # NULL
       THEN /\ connectors' = [connectors EXCEPT ![c] =
                   [pc |-> "done", server |-> <<serverId>>, attempt |-> handles[serverId][1],
                    result |-> <<ConnectionHandle(handles[serverId][1])>>]]
            /\ UNCHANGED <<sockets, connecting>>
       ELSE /\ Len(sockets) < MaxSockets
            /\ sockets' = Append(sockets, [server |-> serverId, state |-> "connecting"])
            /\ connecting' = [connecting EXCEPT ![serverId] = <<Len(sockets) + 1>>]
            /\ connectors' = [connectors EXCEPT ![c] =
                   [pc |-> "waiting", server |-> <<serverId>>,
                    attempt |-> Len(sockets) + 1, result |-> NULL]]
    /\ UNCHANGED handles
    /\ UNCHANGED besideClient

\* connect(server) up to its suspension point: the handle of a connected
\* server is returned; otherwise the caller awaits the attempt in flight for
\* the server, and opens a socket if there is none.
connect(c, serverId) ==
    /\ connectors[c].pc = "idle"
    /\ IF handles[serverId] # NULL
       THEN /\ connectors' = [connectors EXCEPT ![c] =
                   [pc |-> "done", server |-> <<serverId>>, attempt |-> handles[serverId][1],
                    result |-> <<ConnectionHandle(handles[serverId][1])>>]]
            /\ UNCHANGED <<sockets, connecting>>
       ELSE IF connecting[serverId] # NULL
       THEN /\ connectors' = [connectors EXCEPT ![c] =
                   [pc |-> "waiting", server |-> <<serverId>>,
                    attempt |-> connecting[serverId][1], result |-> NULL]]
            /\ UNCHANGED <<sockets, connecting>>
       ELSE /\ Len(sockets) < MaxSockets
            /\ sockets' = Append(sockets, [server |-> serverId, state |-> "connecting"])
            /\ connecting' = [connecting EXCEPT ![serverId] = <<Len(sockets) + 1>>]
            /\ connectors' = [connectors EXCEPT ![c] =
                   [pc |-> "waiting", server |-> <<serverId>>,
                    attempt |-> Len(sockets) + 1, result |-> NULL]]
    /\ UNCHANGED handles
    /\ UNCHANGED besideClient

\* The attempt in flight for the server ends: every caller awaiting it
\* observes its result.
ConnectEnds(serverId, state, result) ==
    LET a == connecting[serverId][1]
    IN  /\ sockets' = [sockets EXCEPT ![a].state = state]
        /\ connecting' = [connecting EXCEPT ![serverId] = NULL]
        /\ connectors' = [c \in DOMAIN connectors |->
               IF connectors[c].pc = "waiting" /\ connectors[c].attempt = a
               THEN [connectors[c] EXCEPT !.pc = "done", !.result = <<result>>]
               ELSE connectors[c]]

\* The socket is established
ConnectSucceeds(serverId) ==
    /\ connecting[serverId] # NULL
    /\ handles' = [handles EXCEPT ![serverId] = connecting[serverId]]
    /\ ConnectEnds(serverId, "open", ConnectionHandle(connecting[serverId][1]))
    /\ UNCHANGED besideClient

\* The server is unreachable: ConnectError
ConnectFails(serverId) ==
    /\ connecting[serverId] # NULL
    /\ ConnectEnds(serverId, "failed", ConnectError)
    /\ UNCHANGED handles
    /\ UNCHANGED besideClient

\* close(handle)
close(serverId) ==
    /\ handles[serverId] # NULL
    /\ sockets' = [sockets EXCEPT ![handles[serverId][1]].state = "closed"]
    /\ handles' = [handles EXCEPT ![serverId] = NULL]
    /\ UNCHANGED <<connecting, connectors>>
    /\ UNCHANGED besideClient

\* A caller that has its result calls again
returned(c) ==
    /\ connectors[c].pc = "done"
    /\ connectors' = [connectors EXCEPT ![c] = IdleConnector]
    /\ UNCHANGED <<sockets, connecting, handles>>
    /\ UNCHANGED besideClient

----------------------------------------------------------------------------
(* ToolEditor.tsx: the effect that keeps the signature in the implementation  *)
(* in step with the name and the parameters.  Strings are sequences of        *)
(* characters.                                                                *)

FunctionWord == <<"f", "u", "n", "c", "t", "i", "o", "n">>

GetWeather == <<"g", "e", "t", "W", "e", "a", "t", "h", "e", "r">>

Location == <<"l", "o", "c", "a", "t", "i", "o", "n">>

\* The implementation of the sample tool getWeather, its body left out:
\* async function getWeather(location) {}
sampleImplementation ==
    <<"a", "s", "y", "n", "c", " ">> \o FunctionWord \o <<" ">> \o GetWeather
        \o <<"(">> \o Location \o <<")", " ", "{", "}">>

\* Values typed into the name field, a parameter's name field and the code
\* editor.  The names have no character that is special in a RegExp or in
\* the replacement of String.replace, so that the name in the pattern and
\* the replacement stand for themselves.
CodeNameInputs == {<<>>, <<"f">>, GetWeather}
CodeParameterInputs == {<<>>, <<"a">>, <<"a", ")">>}
ImplementationInputs == {FunctionWord \o <<" ", "f", "(", "a", ")", " ", "{", "}">>}

\* \s
IsSpace(c) == c \in {" ", "\n", "\t"}

\* The number of characters matched by \s* at position k of text
SpaceRun(text, k) ==
    CHOOSE n \in 0..(Len(text) - k + 1) :
        /\ \A j \in k..(k + n - 1) : IsSpace(text[j])
        /\ k + n > Len(text) \/ ~IsSpace(text[k + n])

\* word occurs in text at position k
OccursAt(text, k, word) ==
    /\ k + Len(word) - 1 <= Len(text)
    /\ SubSeq(text, k, k + Len(word) - 1) = word

\* The position of the last character of the match of
\* function\s+<name>\s*\([^)]*\) that starts at position i of text, 0 if
\* there is none
MatchEnd(text, i, name) ==
    IF ~OccursAt(text, i, FunctionWord) THEN 0
    ELSE LET afterWord == i + Len(FunctionWord)
             afterSpace == afterWord + SpaceRun(text, afterWord)
         IN  IF afterSpace = afterWord \/ ~OccursAt(text, afterSpace, name) THEN 0
             ELSE LET afterName == afterSpace + Len(name)
                      paren == afterName + SpaceRun(text, afterName)
                  IN  IF paren > Len(text) \/ text[paren] # "(" THEN 0
                      ELSE IF \E j \in (paren + 1)..Len(text) : text[j] = ")"
                      THEN CHOOSE j \in (paren + 1)..Len(text) :
                               text[j] = ")" /\ \A h \in (paren + 1)..(j - 1) : text[h] # ")"
                      ELSE 0

\* text.replace(new RegExp(pattern), replacement): the first match, from the
\* left, is replaced
Replace(text, name, replacement) ==
    IF \E i \in 1..Len(text) : MatchEnd(text, i, name) > 0
    THEN LET i == CHOOSE i \in 1..Len(text) :
                      MatchEnd(text, i, name) > 0
                         /\ \A h \in 1..(i - 1) : MatchEnd(text, h, name) = 0
         IN  SubSeq(text, 1, i - 1) \o replacement
                 \o SubSeq(text, MatchEnd(text, i, name) + 1, Len(text))
    ELSE text

\* names.join(', ')
RECURSIVE Join(_)
Join(names) ==
    IF names = <<>> THEN <<>>
    ELSE IF Len(names) = 1 THEN names[1]
    ELSE names[1] \o <<",", " ">> \o Join(Tail(names))

\* parameters.map(p => p.name).filter(Boolean).join(', ')
ParamList(parameters) == Join(SelectSeq(parameters, LAMBDA n : n # <<>>))

\* updatedImplementation of the effect
UpdatedImplementation(editor) ==
    Replace(editor.implementation, editor.name,
            FunctionWord \o <<" ">> \o editor.name \o <<"(">>
                \o ParamList(editor.parameters) \o <<")">>)

\* setName of the editor
typeName(value) ==
    /\ value # code.name
    /\ code' = [code EXCEPT !.name = value]
    /\ UNCHANGED besideCode

\* handleAddParameter of the editor
addParameter ==
    /\ Len(code.parameters) < MaxCodeParams
    /\ code' = [code EXCEPT !.parameters = Append(@, <<>>)]
    /\ UNCHANGED besideCode

\* handleUpdateParameter with ParameterEditor.handleChange('name', value)
typeParameterName(index, value) ==
    /\ index \in 1..Len(code.parameters)
    /\ value # code.parameters[index]
    /\ code' = [code EXCEPT !.parameters[index] = value]
    /\ UNCHANGED besideCode

\* handleRemoveParameter of the editor
removeParameter(index) ==
    /\ index \in 1..Len(code.parameters)
    /\ code' = [code EXCEPT !.parameters = RemoveAt(@, index)]
    /\ UNCHANGED besideCode

\* onChange={setImplementation} of the CodeEditor
typeImplementation(value) ==
    /\ value # code.implementation
    /\ code' = [code EXCEPT !.implementation = value]
    /\ UNCHANGED besideCode

\* The effect on [name, parameters, implementation]: it runs after every
\* change of one of them and calls setImplementation if the rewritten
\* implementation differs
implementationSync ==
    /\ code.name # <<>> /\ code.implementation # <<>>
    /\ UpdatedImplementation(code) # code.implementation
    /\ Len(UpdatedImplementation(code)) <= MaxImplementation
    /\ code' = [code EXCEPT !.implementation = UpdatedImplementation(code)]
    /\ UNCHANGED besideCode

----------------------------------------------------------------------------
(* The application *)

Init ==
    /\ route = "index"
    /\ id = NULL
    /\ server = NULL
    /\ isLoading = TRUE
    /\ activeTab = "overview"
    /\ editingTool = NULL
    /\ toolEditor = NULL
    /\ configEditor = NULL
    /\ newServer = [name |-> <<>>, description |-> <<>>, isSubmitting |-> FALSE]
    /\ created = NULL
    /\ heap = sampleHeap
    /\ timers = <<>>
    /\ now = 3
    /\ edits = 0
    /\ interrupted = NULL
    /\ credentials = [key \in CredentialKeys |-> [accessToken |-> 1, expired |-> FALSE]]
    /\ refreshing = [key \in CredentialKeys |-> NULL]
    /\ refreshCalls = <<>>
    /\ callers = [c \in 1..MaxCallers |-> IdleCaller]
    /\ subscribers = [sub \in 1..MaxSubscribers |-> NoSubscriber]
    /\ published = <<>>
    /\ calls = [call \in 1..MaxCalls |-> IdleCall]
    /\ records = <<>>
    /\ invocations = <<>>
    /\ sockets = <<>>
    /\ connecting = [serverId \in ConnectedServers |-> NULL]
    /\ handles = [serverId \in ConnectedServers |-> NULL]
    /\ connectors = [c \in 1..MaxConnectors |-> IdleConnector]
    /\ code = [name |-> GetWeather, parameters |-> <<Location>>,
               implementation |-> sampleImplementation]

Next ==
    \/ \E i \in 1..MaxTimers : LoadTimer(i)
    \/ handleBack
    \/ \E value \in Tabs : handleTabChange(value)
    \/ \E k \in 1..MaxHeap :
          /\ ToolListShown
          /\ k <= Len(heap[server[1].tools])
          /\ handleEditTool(heap[server[1].tools][k])
    \/ handleNewTool
    \/ EditConfiguration
    \/ handleDeploy
    \/ \E i \in 1..MaxTimers : DeployingTimer(i)
    \/ \E i \in 1..MaxTimers : DeployedTimer(i)
    \/ \E value \in ToolNameInputs : setName(value)
    \/ handleAddParameter
    \/ \E index \in 1..MaxParams, input \in ParameterInputs :
          /\ toolEditor # NULL
          /\ index <= Len(toolEditor[1].parameters)
          /\ handleUpdateParameter(index,
                 handleChange(toolEditor[1].parameters[index], input[1], input[2]))
    \/ \E index \in 1..MaxParams : handleRemoveParameter(index)
    \/ handleSave
    \/ \E transport \in TransportInputs : setTransport(transport)
    \/ \E type \in AuthTypeInputs : handleTypeChange(type)
    \/ \E enabled \in BOOLEAN : handleToggle(enabled)
    \/ handleSaveConfigEditor
    \/ \E k \in 1..Len(sampleServers) : handleCardClick(k)
    \/ handleNewServer
    \/ SidebarHome
    \/ \E value \in ServerNameInputs : setServerName(value)
    \/ \E value \in DescriptionInputs : setDescription(value)
    \/ handleCreate
    \/ \E i \in 1..MaxTimers : CreateTimer(i)
    \/ Reload
    \/ Tick

Spec == Init /\ [][Next]_vars

\* The application with the event loop running every pending callback of
\* setTimeout: a callback that stays runnable does run
SpecFair ==
    /\ Init
    /\ [][Next]_vars
    /\ WF_vars(\E i \in 1..MaxTimers : LoadTimer(i))
    /\ WF_vars(\E i \in 1..MaxTimers : DeployingTimer(i))
    /\ WF_vars(\E i \in 1..MaxTimers : DeployedTimer(i))
    /\ WF_vars(\E i \in 1..MaxTimers : CreateTimer(i))

\* The OAuth Lifecycle Manager under concurrent callers
NextOAuth ==
    \/ \E c \in 1..MaxCallers, key \in CredentialKeys : getValidCredential(c, key)
    \/ \E key \in CredentialKeys : RefreshSucceeds(key)
    \/ \E key \in CredentialKeys : RefreshFails(key)
    \/ \E key \in CredentialKeys : TokenExpires(key)

SpecOAuth == Init /\ [][NextOAuth]_vars

\* The Event Bus with its producers and subscribers
NextEventBus ==
    \/ \E sub \in 1..MaxSubscribers, topicPattern \in Topics : subscribe(sub, topicPattern)
    \/ \E topic \in Topics : publish(topic)
    \/ \E sub \in 1..MaxSubscribers : deliver(sub)
    \/ \E sub \in 1..MaxSubscribers : cancel(sub)

SpecEventBus == Init /\ [][NextEventBus]_vars

\* The Tool Execution Engine with its callers
NextExecute ==
    \/ \E call \in 1..MaxCalls, params \in ParamMaps : execute(call, params)
    \/ \E call \in 1..MaxCalls : validated(call)
    \/ \E call \in 1..MaxCalls, ok \in BOOLEAN : credentialed(call, ok)
    \/ \E call \in 1..MaxCalls, outcome \in InvokeOutcomes : invokeReturns(call, outcome)

SpecExecute == Init /\ [][NextExecute]_vars

\* The Protocol Client with the callers of connect
NextConnect ==
    \/ \E c \in 1..MaxConnectors, serverId \in ConnectedServers : connect(c, serverId)
    \/ \E serverId \in ConnectedServers : ConnectSucceeds(serverId)
    \/ \E serverId \in ConnectedServers : ConnectFails(serverId)
    \/ \E serverId \in ConnectedServers : close(serverId)
    \/ \E c \in 1..MaxConnectors : returned(c)

SpecConnect == Init /\ [][NextConnect]_vars

\* A ToolEditor open on the sample tool getWeather
NextCode ==
    \/ \E value \in CodeNameInputs : typeName(value)
    \/ addParameter
    \/ \E index \in 1..MaxCodeParams, value \in CodeParameterInputs :
          typeParameterName(index, value)
    \/ \E index \in 1..MaxCodeParams : removeParameter(index)
    \/ \E value \in ImplementationInputs : typeImplementation(value)
    \/ implementationSync

SpecCode == Init /\ [][NextCode]_vars

----------------------------------------------------------------------------
(* Properties *)

Server1 == sampleServers[1].id
Server2 == sampleServers[2].id

\* deploymentUrl is set exactly when the server is DEPLOYED
UrlIffDeployed(srv) == (srv.deploymentUrl # NULL) <=> (srv.deploymentState = "DEPLOYED")

\* The pending callbacks of the deployment attempts of the mounted ServerDetail
AttemptsInFlight ==
    {i \in 1..Len(timers) : timers[i].live /\ timers[i].kind \in {"deploying", "deployed"}}

\* The pending first callbacks of handleDeploy: the attempts that have not yet
\* reached DEPLOYING
AttemptsStarted == {i \in 1..Len(timers) : timers[i].kind = "deploying"}

\* C1: in every reachable state of every server (the sample servers, a newly
\* created server, the server shown by ServerDetail after any interleaving of
\* the handleDeploy callbacks and the saves) deploymentUrl is set if and only
\* if deploymentState is DEPLOYED.
C1_UrlIffDeployed ==
    /\ \A k \in 1..Len(sampleServers) : UrlIffDeployed(sampleServers[k])
    /\ created # NULL => UrlIffDeployed(created[1].object)
    /\ server # NULL => UrlIffDeployed(server[1])

\* A deployment started by handleDeploy has completed: the server shown is
\* DEPLOYED under the URL made from its name
C1_Witness ==
    /\ Rendered
    /\ server[1].id = Server2
    /\ server[1].deploymentState = "DEPLOYED"
    /\ server[1].deploymentUrl = <<DeploymentUrlOf(server[1].name)>>

\* C2: within one server at most one deployment attempt started by
\* handleDeploy is in flight at any time.
C2_AttemptsSerialized == Cardinality(AttemptsInFlight) <= 1

\* C3: while the server shown is DEPLOYING a deploy command is rejected: no
\* step starts a new attempt, and the button that would issue the command
\* does nothing.
C3_DeployRejectedWhileDeploying ==
    [][(server # NULL /\ server[1].deploymentState = "DEPLOYING")
          => /\ getDeployButton(server[1].deploymentState) = "none"
             /\ Cardinality(AttemptsStarted') <= Cardinality(AttemptsStarted)]_vars

\* The server is shown as DEPLOYING while its attempt is in flight
C3_Witness ==
    /\ Rendered
    /\ server[1].deploymentState = "DEPLOYING"
    /\ AttemptsInFlight # {}

\* The transitions of the deployment state machine
Transitions ==
    { <<"NOT_DEPLOYED", "DEPLOYING">>, <<"DEPLOYING", "DEPLOYED">>,
      <<"DEPLOYING", "FAILED">>, <<"DEPLOYED", "DEPLOYING">>,
      <<"FAILED", "DEPLOYING">>, <<"DEPLOYED", "FAILED">> }

\* C4: every change of the deploymentState of the server shown is a
\* transition of the deployment state machine; the server becomes DEPLOYED
\* only from DEPLOYING, and as no redeploy command exists it never leaves
\* DEPLOYED for DEPLOYING.
C4_StateMachine ==
    [][(server # NULL /\ server' # NULL /\ server'[1].id = server[1].id
           /\ server'[1].deploymentState # server[1].deploymentState)
          => /\ <<server[1].deploymentState, server'[1].deploymentState>> \in Transitions
             /\ server'[1].deploymentState = "DEPLOYED"
                   => server[1].deploymentState = "DEPLOYING"
             /\ ~(server[1].deploymentState = "DEPLOYED"
                    /\ server'[1].deploymentState = "DEPLOYING")]_vars

\* The server has become DEPLOYED while the callback of a second attempt is
\* still pending
C4_Witness ==
    /\ Rendered
    /\ server[1].id = Server2
    /\ server[1].deploymentState = "DEPLOYED"
    /\ AttemptsInFlight # {}

\* C5: whenever the server shown is DEPLOYED or FAILED, the deploy button
\* issues the redeploy or retry command.
C5_ReEnterable ==
    (Rendered /\ server[1].deploymentState \in {"DEPLOYED", "FAILED"})
        => getDeployButton(server[1].deploymentState) = "handleDeploy"

\* C6: a server whose page was reloaded while it was DEPLOYING is shown after
\* the reload as FAILED, or as DEPLOYING under a retry.
C6_RestartObservedFailed ==
    (Rendered /\ interrupted # NULL /\ server[1].id = interrupted[1])
        => server[1].deploymentState \in {"FAILED", "DEPLOYING"}

\* The tools that the remote server of the scenario reports at discovery
DiscoveryResult == << [id |-> <<"tool", 0>>, name |-> "C", parameters |-> <<>>] >>

\* C7: once a deployment has succeeded, the tool collection of the server is
\* exactly the discovery result; no tool of before the deployment survives.
C7_ToolsReplaced ==
    (Rendered /\ server[1].id = Server2 /\ server[1].deploymentState = "DEPLOYED")
        => heap[server[1].tools] = DiscoveryResult

\* C8: the server made by registration is NOT_DEPLOYED, has no deploymentUrl
\* and has empty tools, resources and prompts, whatever name and description
\* were entered.
C8_CreatedNotDeployed ==
    created # NULL
        => /\ created[1].object.deploymentState = "NOT_DEPLOYED"
           /\ created[1].object.deploymentUrl = NULL
           /\ created[1].toolsArray = <<>>
           /\ created[1].object.resources = <<>>
           /\ created[1].object.prompts = <<>>

\* A server has been created under an entered name and description
C8_Witness ==
    /\ created # NULL
    /\ created[1].object.name = <<"S", "1">>
    /\ created[1].object.description = <<"d">>

\* The steps of handleSaveTool, handleSaveConfig and of the tab and editor
\* handlers
SaveOrEditStep ==
    \/ handleSave
    \/ handleSaveConfigEditor
    \/ \E value \in Tabs : handleTabChange(value)
    \/ \E r \in 1..MaxHeap, k \in 1..MaxHeap :
          r <= Len(heap) /\ k <= Len(heap[r]) /\ handleEditTool(heap[r][k])
    \/ handleNewTool
    \/ EditConfiguration

\* C9: handleSaveTool, handleSaveConfig and the tab and editor handlers leave
\* deploymentState and deploymentUrl of the server as they were.
C9_SavesKeepDeployment ==
    [][SaveOrEditStep
          => /\ server' # NULL
             /\ server'[1].deploymentState = server[1].deploymentState
             /\ server'[1].deploymentUrl = server[1].deploymentUrl]_vars

\* A changed configuration has been saved into a deployed server
C9_Witness ==
    /\ Rendered
    /\ server[1].deploymentState = "DEPLOYED"
    /\ server[1].config # FindServer(server[1].id)[1].config

\* pairwise distinct parameter names
UniqueParameterNames(tool) ==
    \A i, j \in 1..Len(tool.parameters) :
        tool.parameters[i].name = tool.parameters[j].name => i = j

\* C10: every tool that the ToolEditor has saved has pairwise distinct
\* parameter names.
C10_UniqueParameterNames ==
    \A r \in 1..Len(heap) : \A k \in 1..Len(heap[r]) : UniqueParameterNames(heap[r][k])

\* pairwise distinct tool names
UniqueToolNames(tools) ==
    \A i, j \in 1..Len(tools) : tools[i].name = tools[j].name => i = j

\* C11: after any sequence of tool saves no two tools of the server shown
\* have the same name.
C11_UniqueToolNames ==
    Rendered => UniqueToolNames(heap[server[1].tools])

\* The refresh calls to the provider for key that have not ended
PendingRefreshes(key) ==
    {r \in 1..Len(refreshCalls) : refreshCalls[r].key = key /\ refreshCalls[r].outcome = NULL}

\* C12: the callers of getValidCredential that wait for the same key at the
\* same time wait on one refresh call to the provider (no second call is in
\* flight for the key), and every caller that waited on a refresh call has
\* received the outcome of that call: the same refreshed Credential, or the
\* same failure, as the other callers of that call.
C12_SingleFlight ==
    /\ \A key \in CredentialKeys : Cardinality(PendingRefreshes(key)) <= 1
    /\ \A c, d \in 1..MaxCallers :
          (callers[c].pc = "waiting" /\ callers[d].pc = "waiting"
              /\ callers[c].key = callers[d].key)
             => callers[c].refresh = callers[d].refresh
    /\ \A c \in 1..MaxCallers :
          (callers[c].pc = "done" /\ callers[c].refresh # 0)
             => callers[c].result = refreshCalls[callers[c].refresh].outcome
    /\ \A c \in 1..MaxCallers :
          callers[c].pc = "waiting" => callers[c].refresh \in PendingRefreshes(callers[c].key[1])

\* Two callers have received the same refreshed Credential from the one
\* refresh call made for their key
C12_Witness ==
    \E c, d \in 1..MaxCallers :
        /\ c # d
        /\ callers[c].pc = "done" /\ callers[d].pc = "done"
        /\ callers[c].refresh # 0
        /\ callers[c].refresh = callers[d].refresh
        /\ callers[c].result = callers[d].result
        /\ callers[c].result[1][1] = "Credential"
        /\ Cardinality({r \in 1..Len(refreshCalls) : refreshCalls[r].key = callers[c].key[1]}) = 1

\* The events published to the topic of the subscriber since it subscribed,
\* in publish order
Due(subscriber) ==
    SelectSeq(SubSeq(published, subscriber.since + 1, Len(published)),
              LAMBDA e : <<e.topic>> = subscriber.topic)

\* seq is the first part of full
IsPrefix(seq, full) == Len(seq) <= Len(full) /\ seq = SubSeq(full, 1, Len(seq))

C17_DroppedNeverBlocks ==
    /\ [](\A topic \in Topics : Len(published) < MaxEvents => ENABLED publish(topic))
    /\ [](\A sub \in 1..MaxSubscribers :
            subscribers[sub].status = "dropped"
               <=> subscribers[sub].notification = <<"SubscriberOverflow">>)
    /\ [][\A topic \in Topics : publish(topic) =>
            \A sub \in 1..MaxSubscribers :
                (subscribers[sub].status = "connected" /\ subscribers[sub].topic = <<topic>>)
                   => IF Len(subscribers[sub].queue) >= MaxQueue
                      THEN /\ subscribers'[sub].status = "dropped"
                           /\ subscribers'[sub].notification = <<"SubscriberOverflow">>
                      ELSE /\ subscribers'[sub].status = "connected"
                           /\ subscribers'[sub].queue =
                                 Append(subscribers[sub].queue, published'[Len(published')])]_vars

\* A subscriber that took nothing was dropped, and a subscriber of the same
\* topic has received every event published to it, two or more
C17_Witness ==
    \E slow, other \in 1..MaxSubscribers :
        /\ subscribers[slow].status = "dropped"
        /\ subscribers[slow].notification = <<"SubscriberOverflow">>
        /\ subscribers[slow].received = <<>>
        /\ subscribers[other].status = "connected"
        /\ subscribers[other].topic = subscribers[slow].topic
        /\ subscribers[other].since = 0
        /\ Len(subscribers[other].received) >= 2
        /\ subscribers[other].received = Due(subscribers[other])

\* A required parameter of the tool is missing from params, or a supplied
\* value is not of the declared type
InvalidFor(tool, params) ==
    \E k \in 1..Len(tool.parameters) :
        LET parameter == tool.parameters[k]
        IN  \/ parameter.required /\ params[parameter.name] = NULL
            \/ params[parameter.name] # NULL /\ params[parameter.name].json # parameter.type

\* The ExecutionRecords of a call
RecordsOf(call) == SelectSeq(records, LAMBDA r : r.call = call)

\* The calls of ProtocolClient.invoke made for a call
InvocationsOf(call) == SelectSeq(invocations, LAMBDA i : i.call = call)

\* C14: an execute call with invalid parameters (a required one missing, a
\* numeric string for a number) never reaches ProtocolClient.invoke, whatever
\* the other calls do, and once validated it has an ExecutionRecord tagged
\* ValidationError.
C14_InvalidNeverInvoked ==
    \A call \in 1..MaxCalls :
        (calls[call].pc # "idle" /\ InvalidFor(ExecutedTool, calls[call].params[1]))
           => /\ InvocationsOf(call) = <<>>
              /\ calls[call].pc \in {"validate", "done"}
              /\ calls[call].pc = "done"
                    => /\ Len(RecordsOf(call)) = 1
                       /\ RecordsOf(call)[1].error = <<"ValidationError">>
                       /\ RecordsOf(call)[1].result = NULL

\* Two calls ran together, one without the required parameter and one with a
\* numeric string for the number; both ended in a ValidationError record
C14_Witness ==
    \E a, b \in 1..MaxCalls :
        /\ calls[a].pc = "done" /\ calls[b].pc = "done"
        /\ calls[a].params[1]["city"] = NULL
        /\ calls[b].params[1]["city"] # NULL
        /\ calls[b].params[1]["city"].json = "string"
        /\ calls[b].params[1]["days"] = [json |-> "string", text |-> "3"]
        /\ records[1].call = b /\ records[2].call = a
        /\ invocations = <<>>

\* C15: a finished execute call has exactly one ExecutionRecord, carrying
\* either a result or an error, a running one has none yet, and no call is
\* sent to ProtocolClient.invoke twice.
C15_ExactlyOneRecord ==
    \A call \in 1..MaxCalls :
        /\ Len(RecordsOf(call)) = (IF calls[call].pc = "done" THEN 1 ELSE 0)
        /\ Len(InvocationsOf(call)) <= 1
        /\ \A k \in 1..Len(RecordsOf(call)) :
              (RecordsOf(call)[k].result = NULL) # (RecordsOf(call)[k].error = NULL)

\* One call timed out and another succeeded: one record and one invoke each
C15_Witness ==
    \E a, b \in 1..MaxCalls :
        /\ calls[a].pc = "done" /\ calls[b].pc = "done"
        /\ RecordsOf(a) # <<>> /\ RecordsOf(a)[1].error = <<"TimeoutError">>
        /\ RecordsOf(b) # <<>> /\ RecordsOf(b)[1].result = <<"ToolResult">>
        /\ Len(InvocationsOf(a)) = 1 /\ Len(InvocationsOf(b)) = 1
        /\ Len(records) = 2

\* The sockets of the server that are being established or are open
LiveSockets(serverId) ==
    {k \in 1..Len(sockets) :
        sockets[k].server = serverId /\ sockets[k].state \in {"connecting", "open"}}

\* C16: connect is idempotent per server id: a server never has two sockets
\* being established or open, callers of connect for one server that wait at
\* the same time await the same attempt, and a caller awaits an attempt that
\* is in flight for its server.
C16_ConnectIdempotent ==
    /\ \A serverId \in ConnectedServers : Cardinality(LiveSockets(serverId)) <= 1
    /\ \A c, d \in 1..MaxConnectors :
          (connectors[c].pc = "waiting" /\ connectors[d].pc = "waiting"
             /\ connectors[c].server = connectors[d].server)
             => connectors[c].attempt = connectors[d].attempt
    /\ \A c \in 1..MaxConnectors :
          connectors[c].pc = "waiting"
             => /\ connecting[connectors[c].server[1]] = <<connectors[c].attempt>>
                /\ sockets[connectors[c].attempt].server = connectors[c].server[1]

\* A second caller connected to a server while the connect of the first was
\* in flight: both await the one socket that was opened
C16_Witness ==
    \E c, d \in 1..MaxConnectors :
        /\ c # d
        /\ connectors[c].pc = "waiting" /\ connectors[d].pc = "waiting"
        /\ connectors[c].server = connectors[d].server
        /\ connectors[c].attempt = 1 /\ connectors[d].attempt = 1
        /\ sockets = <<[server |-> connectors[c].server[1], state |-> "connecting"]>>

\* C18: when handleCreate has completed and navigated to /server/<id>, the
\* load of ServerDetail for that id ends with the page showing the created
\* server, under the name and description entered.
C18_CreatedServerFound ==
    [][\A i \in 1..Len(timers) :
          (created # NULL /\ LoadTimer(i) /\ timers[i].live
             /\ timers[i].id = created[1].object.id)
             => /\ Rendered'
                /\ server'[1].id = created[1].object.id
                /\ server'[1].name = created[1].object.name
                /\ server'[1].description = created[1].object.description]_vars

\* C19: going back to the dashboard from a server whose deployment has
\* reached DEPLOYING or DEPLOYED, the card of that server shows Deploying or
\* Deployed accordingly.
C19_DashboardFollowsDeployment ==
    [][(handleBack /\ server[1].deploymentState \in {"DEPLOYING", "DEPLOYED"})
          => /\ route' = "index"
             /\ StatusShown(server[1].id) = getStatusText(server[1].deploymentState)]_vars

\* C20: an update of handleDeploy to the server shown changes only its
\* deploymentState, deploymentUrl and updatedAt: the configuration and the
\* tools saved since the deploy click are still those of the server.
C20_NoUpdateLostToDeployment ==
    [][\A i \in 1..Len(timers) :
          ((DeployingTimer(i) \/ DeployedTimer(i)) /\ timers[i].live
             /\ server # NULL /\ timers[i].server[1].id = server[1].id)
             => /\ server' # NULL
                /\ server'[1].config = server[1].config
                /\ heap'[server'[1].tools] = heap[server[1].tools]
                /\ [server'[1] EXCEPT !.deploymentState = "", !.deploymentUrl = NULL,
                                      !.updatedAt = 0]
                     = [server[1] EXCEPT !.deploymentState = "", !.deploymentUrl = NULL,
                                         !.updatedAt = 0]]_vars

\* The first callback of a handleDeploy on the server shown is pending
DeployStarted ==
    /\ Rendered
    /\ \E i \in 1..Len(timers) :
          timers[i].kind = "deploying" /\ timers[i].live /\ timers[i].id = server[1].id

\* C21: with every pending callback run, a handleDeploy on a loaded server
\* is followed by DEPLOYING and then by DEPLOYED with a deploymentUrl, and no
\* server is ever FAILED.
C21_DeployEventuallyDeployed ==
    /\ DeployStarted ~> (server # NULL /\ server[1].deploymentState = "DEPLOYING")
    /\ DeployStarted ~> (/\ server # NULL
                         /\ server[1].deploymentState = "DEPLOYED"
                         /\ server[1].deploymentUrl # NULL)
    /\ [](server # NULL => server[1].deploymentState # "FAILED")

\* C23: whenever ServerDetail has a tool being edited, the active tab is the
\* tools tab.
C23_EditorOnToolsTab ==
    editingTool # NULL => activeTab = "tools"

\* A tool of the server shown is being edited, on the tools tab
C23_Witness ==
    /\ Rendered
    /\ editingTool # NULL
    /\ editingTool[1].id # NULL
    /\ activeTab = "tools"

\* C22: the load of a server id of sampleServers shows the server exactly as
\* sampleServers defines it, with the tools it defines, whatever was saved or
\* deployed before.
C22_SampleServersUntouched ==
    [][\A i \in 1..Len(timers) :
          (LoadTimer(i) /\ timers[i].live /\ FindServer(timers[i].id) # NULL)
             => /\ server' = FindServer(timers[i].id)
                /\ heap'[server'[1].tools] = sampleHeap[server'[1].tools]]_vars

\* pairwise distinct tool ids
UniqueToolIds(tools) ==
    \A i, j \in 1..Len(tools) : tools[i].id = tools[j].id => i = j

\* C24: saving a tool whose id is among the tools of the server replaces the
\* tool at that index and leaves number and order as they were; saving a tool
\* with another id appends it; every other tool is unchanged, the tool ids
\* stay pairwise distinct and editingTool is null afterwards.
C24_SaveToolUpserts ==
    [][handleSave =>
          LET tool == updatedTool
              old == heap[server[1].tools]
              new == heap'[server'[1].tools]
              toolIndex == FindIndex(old, tool.id)
          IN  /\ editingTool' = NULL
              /\ IF toolIndex >= 1
                 THEN /\ Len(new) = Len(old)
                      /\ new[toolIndex] = tool
                      /\ \A j \in 1..Len(old) : j # toolIndex => new[j] = old[j]
                 ELSE new = Append(old, tool)
              /\ UniqueToolIds(new)]_vars

\* The sample tool of the server shown was saved with a change, and a tool
\* with a new id was saved after it
C24_Witness ==
    /\ Rendered
    /\ editingTool = NULL
    /\ Len(heap[server[1].tools]) = 2
    /\ heap[server[1].tools][1].id = <<"tool", 1>>
    /\ heap[server[1].tools][1] # sampleTools[1]
    /\ heap[server[1].tools][2].id \notin {sampleTools[k].id : k \in 1..Len(sampleTools)}

\* C25: once the effect has rewritten the signature in the implementation,
\* running it again with the same name and parameters changes nothing.
C25_SyncReachesFixedPoint ==
    [][implementationSync => UpdatedImplementation(code') = code'.implementation]_vars

\* A change of transport, authentication or cors inside ServerConfigEditor
ConfigEditStep ==
    \/ \E transport \in TransportInputs : setTransport(transport)
    \/ \E type \in AuthTypeInputs : handleTypeChange(type)
    \/ \E enabled \in BOOLEAN : handleToggle(enabled)

\* C26: a change inside ServerConfigEditor leaves the server as it is; the
\* save makes the config of the server the transport, authentication and cors
\* of the editor and leaves its tools, resources and prompts as they were.
C26_ConfigCommittedOnSave ==
    [][/\ ConfigEditStep => (server' = server /\ heap' = heap)
       /\ handleSaveConfigEditor
             => /\ server'[1].config = [transport |-> configEditor[1].transport,
                                        authentication |-> configEditor[1].authentication,
                                        cors |-> configEditor[1].cors]
                /\ server'[1].tools = server[1].tools
                /\ heap' = heap
                /\ server'[1].resources = server[1].resources
                /\ server'[1].prompts = server[1].prompts]_vars

\* An edited configuration has been saved: the server has the values of the
\* editor, which are not those it was loaded with
C26_Witness ==
    /\ Rendered
    /\ configEditor # NULL
    /\ server[1].config = [transport |-> configEditor[1].transport,
                           authentication |-> configEditor[1].authentication,
                           cors |-> configEditor[1].cors]
    /\ server[1].config # FindServer(server[1].id)[1].config
    /\ edits > 0

====
